---- MODULE Spec2Model ----
(***************************************************************************)
(* GraphSAGE-style supervised model with the optional quantum-walk         *)
(* neighbor reweighting: samplers, preparers, aggregator widths, the        *)
(* quantum-walk graph builder and layer, GSSupervised.forward and           *)
(* GSSupervised.train_step.                                                 *)
(*                                                                          *)
(* Tensors are modelled by what the properties read: id tensors by their    *)
(* entries, feature tensors by their number of rows (size(0)), amplitude    *)
(* tensors entry by entry as squared values (the initial amplitudes are     *)
(* non-negative, so the square determines the value), coin matrices entry   *)
(* by entry as fractions <<numerator, denominator>>.                        *)
(***************************************************************************)
EXTENDS Integers, Sequences, FiniteSets, TLC

VARIABLES
    \* ---- GSSupervised: configuration fixed by __init__ ----
    layer_specs,        \* sequence of [n_train_samples, n_val_samples]
    quantum_walk,       \* self.quantum_walk
    \* ---- GSSupervised: state that lives across calls ----
    quantum_neighbors,  \* self.quantum_neighbors
    all_amps,           \* self.all_amps
    all_graphs,         \* self.all_graphs
    max_degrees,        \* self.max_degrees
    coins,              \* self.walk_layer.coins (ParameterList)
    params,             \* version of the learnable parameters (parity of the optimizer steps)
    \* ---- the call in progress ----
    pc,                 \* position inside train_step / forward
    caller,             \* "train_step", "eval" or "none"
    train,              \* the train flag of forward
    id_groups,          \* the values taken by the local `ids`, one per depth
    original_id_len,    \* forward's original_id_len
    all_feats,          \* forward's all_feats: rows of each feature group
    layers_done,        \* aggregator layers already applied
    walk_used,          \* arguments handed to walk_layer by the last layer applied
    preds,              \* <<>> or <<predictions of the forward pass>>
    ret,                \* <<>> or <<value returned by train_step>>
    err,                \* exception that ended the call, "none" otherwise
    oplog,              \* operations performed by the call, in order
    \* ---- stand-alone component calls ----
    comp                \* record describing the last component call

vars == <<layer_specs, quantum_walk, quantum_neighbors, all_amps, all_graphs,
          max_degrees, coins, params, pc, caller, train, id_groups,
          original_id_len, all_feats, layers_done, walk_used, preds, ret, err,
          oplog, comp>>

modelVars == <<layer_specs, quantum_walk, quantum_neighbors, all_amps, all_graphs,
               max_degrees, coins, params, pc, caller, train, id_groups,
               original_id_len, all_feats, layers_done, walk_used, preds, ret,
               err, oplog>>

\* ------------------------------------------------------------------ bounds
MaxBatch == 2       \* batch size of the batch iterator
MaxLayers == 2      \* length of layer_specs

\* ------------------------------------------------------------ generic helpers
Range(s) == {s[i] : i \in DOMAIN s}

Min(a, b) == IF a <= b THEN a ELSE b

Max(a, b) == IF a >= b THEN a ELSE b

RECURSIVE SumSeq(_)
SumSeq(s) == IF s = <<>> THEN 0 ELSE Head(s) + SumSeq(Tail(s))

RECURSIVE MaxSeq(_)
MaxSeq(s) == IF s = <<>> THEN 0 ELSE Max(Head(s), MaxSeq(Tail(s)))

RECURSIVE ProdSeq(_)
ProdSeq(s) == IF s = <<>> THEN 1 ELSE Head(s) * ProdSeq(Tail(s))

\* tensor.view(-1) of a 2-D table: row-major flattening
Flatten(tbl) ==
    IF tbl = <<>> \/ tbl[1] = <<>> THEN <<>>
    ELSE LET k == Len(tbl[1])
         IN  [i \in 1..(Len(tbl) * k) |-> tbl[((i - 1) \div k) + 1][((i - 1) % k) + 1]]

\* torch.randperm(w): the permutations of the column positions
Perms(w) == {p \in [1..w -> 1..w] : \A i, j \in 1..w : p[i] = p[j] => i = j}

\* The batch iterator without shuffling: consecutive chunks of batch_size ids
\* of the node list, the last chunk holding what is left.
Chunks(nodes, batch_size) ==
    {SubSeq(nodes, (c - 1) * batch_size + 1, Min(c * batch_size, Len(nodes)))
        : c \in 1..((Len(nodes) + batch_size - 1) \div batch_size)}

\* ------------------------------------------------------------------- data
\* Dense adjacency tables handed to GSSupervised.__init__ (row i+1 is node i,
\* the last row is the padding node).  Nodes 0,1,2 are training nodes forming
\* a triangle; node 3 is a validation node attached to node 0.
adj == << <<1, 3>>, <<0, 2>>, <<0, 1>>, <<0, 0>>, <<4, 4>> >>

train_adj == << <<1, 2>>, <<0, 2>>, <<0, 1>>, <<4, 4>>, <<4, 4>> >>

n_nodes == Len(adj) - 1

Width(a) == Len(a[1])

AdjRow(a, id) == a[id + 1]

\* node lists of the data provider: the training nodes, and all nodes
TrainNodes == <<0, 1, 2>>

AllNodes == <<0, 1, 2, 3>>

\* ---------------------------------------------------------------- samplers
\* tensor[:, :n] keeps min(n, w) columns for n >= 0 and w + n columns for n < 0
SliceLen(w, n) == IF n >= 0 THEN Min(n, w) ELSE Max(w + n, 0)

\* faulty variant: a separate permutation for every row (perm is then a row -> permutation map)
UniformNeighborSamplerPerRow(a, ids, perm, n_samples) ==
    [r \in 1..Len(ids) |->
        [c \in 1..SliceLen(Width(a), n_samples) |->
            AdjRow(a, ids[r])[perm[((c + r - 2) % Width(a)) + 1]]]]

\* faulty variant: the slice drops the last requested column
UniformNeighborSamplerShort(a, ids, perm, n_samples) ==
    [r \in 1..Len(ids) |->
        [c \in 1..SliceLen(Width(a), n_samples - 1) |-> AdjRow(a, ids[r])[perm[c]]]]

\* UniformNeighborSampler.__call__: tmp = adj[ids]; tmp[:, perm]; tmp[:, :n_samples]
UniformNeighborSampler(a, ids, perm, n_samples) ==
    [r \in 1..Len(ids) |->
        [c \in 1..SliceLen(Width(a), n_samples) |-> AdjRow(a, ids[r])[perm[c]]]]

\* --------------------------------------------------------------- preparers
\* faulty variant: the true ids are embedded at every depth
EmbeddingIdsLeaky(ids, layer_idx) == ids

\* NodeEmbeddingPrep.forward: the ids handed to self.embedding
EmbeddingIds(ids, layer_idx) ==
    IF layer_idx > 0 THEN ids ELSE [i \in 1..Len(ids) |-> 0 + n_nodes]

\* rows of the tensor a preparer returns: one per id (IdentityPrep returns
\* feats[ids], NodeEmbeddingPrep one embedding per id)
PrepRows(ids) == Len(ids)

\* ------------------------------------------------------------- aggregators
\* combine_fn applied to two (1, w) tensors: width of the result
CombineWidth(combine_fn, w1, w2) ==
    IF combine_fn = "cat" THEN w1 + w2 ELSE w1

\* faulty variant: the configured width is taken for the output width
output_dimConfigured(agg) == agg.output_dim_

\* AggregatorMixin.output_dim
output_dim(agg) == CombineWidth(agg.combine_fn, agg.output_dim_, agg.output_dim_)

\* Aggregator.forward(x, neibs), rows only: neibs.view(x.size(0), -1, D) needs
\* the neighbor rows to split evenly over the rows of x; the result has one
\* row per row of x.
AggregatorForward(xrows, nrows) ==
    IF xrows = 0 \/ nrows % xrows # 0
    THEN [err |-> "RuntimeError", rows |-> 0]
    ELSE [err |-> "none", rows |-> xrows]

\* ------------------------------------------------------------ quantum walk
time_steps == 4

\* Python float division a / b
PyDiv(a, b) == IF b = 0 THEN [err |-> "ZeroDivisionError", val |-> <<0, 1>>]
               ELSE [err |-> "none", val |-> <<a, b>>]

\* groverDiffusion(n): g = ones((n,n))*2.0/n is an array division (no exception,
\* the array is empty when n = 0); the diagonal value -1+2./n is a Python float
\* division.  Entries are fractions: 2/n off the diagonal, (2-n)/n on it.
groverDiffusion(n) ==
    LET q == PyDiv(2, n)
    IN  IF q.err # "none" THEN [err |-> q.err, g |-> <<>>]
        ELSE [err |-> "none",
              g |-> [i \in 1..n |->
                       [j \in 1..n |-> IF i = j THEN <<q.val[1] - n, n>> ELSE q.val]]]

\* row sums of one local graph
RowDegree(row) == SumSeq(row)

\* GenerateQuantumWalkGraphs, first loop: one graph_size x graph_size matrix per
\* consecutive block of graph_size ids; entry [i][j] is 1 when id j of the block
\* occurs in the adjacency row of id i of the block (np.isin).  The block index
\* edgelist/graph_size is an integer division (the file is Python 2 code and
\* does not import division from __future__).
LocalGraphs(a, tmp, batch_size, graph_size) ==
    [b \in 1..batch_size |->
        [i \in 1..graph_size |->
            [j \in 1..graph_size |->
                IF tmp[(b - 1) * graph_size + j] \in Range(AdjRow(a, tmp[(b - 1) * graph_size + i]))
                THEN 1 ELSE 0]]]

\* GenerateQuantumWalkGraphs, second loop: the largest row sum of any graph
MaxDegree(graphs) ==
    MaxSeq([b \in 1..Len(graphs) |-> MaxSeq([i \in 1..Len(graphs[b]) |-> RowDegree(graphs[b][i])])])

\* faulty variant: every slot up to the batch's maximum degree is filled
InitAmpsAllSlots(graphs, degree) ==
    [b \in 1..Len(graphs) |->
        [j \in 1..Len(graphs[b]) |->
            [s \in 1..degree |->
                [jj \in 1..Len(graphs[b]) |->
                    LET jdegree == SumSeq(graphs[b][j])
                    IN  IF jdegree # 0 /\ jj = j THEN <<1, jdegree>> ELSE <<0, 1>>]]]]

\* GenerateQuantumWalkGraphs, third loop: amps[j, :jdegree, j] = 1/sqrt(jdegree),
\* everything else 0 and zero-degree nodes skipped.  Entries are squared
\* amplitudes as fractions: <<1, jdegree>> or <<0, 1>>.
InitAmps(graphs, degree) ==
    [b \in 1..Len(graphs) |->
        [j \in 1..Len(graphs[b]) |->
            [s \in 1..degree |->
                [jj \in 1..Len(graphs[b]) |->
                    LET jdegree == RowDegree(graphs[b][j])
                    IN  IF jdegree # 0 /\ s <= jdegree /\ jj = j
                        THEN <<1, jdegree>> ELSE <<0, 1>>]]]]

\* GenerateQuantumWalkGraphs: returns all_amps, graphs, degree
GenerateQuantumWalkGraphs(a, tmp, batch_size, graph_size) ==
    LET graphs == LocalGraphs(a, tmp, batch_size, graph_size)
        degree == MaxDegree(graphs)
    IN  [amps |-> InitAmps(graphs, degree), graphs |-> graphs, degree |-> degree]

\* np.argwhere(row == 1).flatten(): 0-based positions of the ones, ascending
RECURSIVE Neighbors(_, _)
Neighbors(row, j) ==
    IF j > Len(row) THEN <<>>
    ELSE IF row[j] = 1 THEN <<j - 1>> \o Neighbors(row, j + 1)
         ELSE Neighbors(row, j + 1)

\* faulty variant: the slot of the named neighbor is the naming node's own slot n
RECURSIVE SwapListsBySlot(_, _, _, _)
SwapListsBySlot(graph, degree, p, inds) ==
    IF p >= Len(graph) * degree THEN <<>>
    ELSE LET j == p \div degree
             n == p % degree
             nb == Neighbors(graph[j + 1], 1)
         IN  IF n < Len(nb)
             THEN <<<<nb[n + 1], n>>>> \o SwapListsBySlot(graph, degree, p + 1, inds)
             ELSE <<<<j, n>>>> \o SwapListsBySlot(graph, degree, p + 1, inds)

\* QuantumWalk.forward, swap index lists of one batch element: positions
\* p = j*degree + n are visited in order, inds counts how often each node was
\* already named.  Result: the sequence of <<swap_a, swap_b>> pairs (0-based).
RECURSIVE SwapLists(_, _, _, _)
SwapLists(graph, degree, p, inds) ==
    IF p >= Len(graph) * degree THEN <<>>
    ELSE LET j == p \div degree
             n == p % degree
             nb == Neighbors(graph[j + 1], 1)
         IN  IF n < Len(nb)
             THEN <<<<nb[n + 1], inds[nb[n + 1] + 1]>>>> \o
                  SwapLists(graph, degree, p + 1,
                            [inds EXCEPT ![nb[n + 1] + 1] = @ + 1])
             ELSE <<<<j, n>>>> \o SwapLists(graph, degree, p + 1, inds)

\* ai[swap_a, swap_b] raises IndexError when an index leaves the tensor
SwapInRange(graph, degree, slots) ==
    \A pr \in Range(SwapLists(graph, degree, 0, [i \in 1..Len(graph) |-> 0])) :
        pr[1] < Len(graph) /\ pr[2] < slots

\* QuantumWalk.forward, coin creation: a set of time_steps coins is appended
\* when none exists yet and when exactly one set exists.
MakeCoins(cs, ts, degree) ==
    IF Len(cs) = 0 \/ Len(cs) = ts
    THEN LET gd == groverDiffusion(degree)
         IN  IF gd.err # "none" THEN [err |-> gd.err, coins |-> cs]
             ELSE [err |-> "none", coins |-> cs \o [t \in 1..ts |-> gd.g]]
    ELSE [err |-> "none", coins |-> cs]

\* QuantumWalk.forward, coin choice at time step t (0-based): index into coins
CoinIndex(cs, ts, degree, t) ==
    IF Len(cs[1]) = degree THEN t ELSE t + ts

\* QuantumWalk.forward on shapes: x and neibs by rows, init_amps and graphs entry
\* by entry.  Result: the exception raised ("none" if none), the coin list
\* afterwards, the rows of the returned tensor.
QuantumWalk(cs, xrows, nrows, init_amps, graphs, ts, degree) ==
    LET mk == MakeCoins(cs, ts, degree)
        B0 == Len(init_amps)
        F0 == Len(init_amps[1])
        slots == Len(init_amps[1][1])
        fail(e) == [err |-> e, coins |-> mk.coins, rows |-> 0]
    IN  IF mk.err # "none" THEN fail(mk.err)
        ELSE IF \E t \in 0..(ts - 1) : CoinIndex(mk.coins, ts, degree, t) + 1 > Len(mk.coins)
        THEN fail("IndexError")
        ELSE IF \E t \in 0..(ts - 1) :
                   Len(mk.coins[CoinIndex(mk.coins, ts, degree, t) + 1]) # slots
        THEN fail("RuntimeError")
        ELSE IF \E i \in 1..B0 : ~SwapInRange(graphs[i], degree, slots)
        THEN fail("IndexError")
        ELSE IF nrows % B0 # 0 \/ nrows \div B0 # F0
        THEN fail("RuntimeError")
        ELSE [err |-> "none", coins |-> mk.coins, rows |-> B0 * F0]

\* ------------------------------------------------------------ GSSupervised
\* layer_specs accepted by __init__: 1..MaxLayers layers, sample counts within
\* the adjacency table's width
LayerSpecs ==
    UNION {[1..l -> [n_train_samples : 1..Width(adj), n_val_samples : 1..Width(adj)]]
           : l \in 1..MaxLayers}

\* forward: sample_fns = self.train_sample_fns if train else self.val_sample_fns
SampleCount(spec, tr) == IF tr THEN spec.n_train_samples ELSE spec.n_val_samples

\* the adjacency of self.train_sampler / self.val_sampler, and forward's
\* adj = self.train_adj if train else self.adj
AdjOf(tr) == IF tr THEN train_adj ELSE adj

\* forward's graph_size argument: int(len(ids)/original_id_len)
GraphSize(ids, orig_len) == Len(ids) \div orig_len

\* faulty variant: a layer keeps its last input group next to its outputs
AggOutputsKeepLast(outs, feats) == outs \o <<feats[Len(feats)]>>

\* the list comprehension of one aggregator layer replaces all_feats by its outputs
AggOutputs(outs, feats) == outs

\* One aggregator layer of forward: for k in range(len(all_feats) - 1), in
\* order, the walk layer (when quantum_walk) and the aggregator.  st carries the
\* coin list, the outputs so far, the walk_layer arguments used and the
\* exception raised, which ends the comprehension.
RECURSIVE AggLayer(_, _, _, _, _, _, _)
AggLayer(k, feats, qw, amps, graphs, degrees, st) ==
    IF k > Len(feats) - 2 \/ st.err # "none" THEN st
    ELSE IF ~qw
    THEN LET ag == AggregatorForward(feats[k + 1], feats[k + 2])
         IN  AggLayer(k + 1, feats, qw, amps, graphs, degrees,
                      [st EXCEPT !.err = ag.err,
                                 !.outs = IF ag.err = "none" THEN Append(@, ag.rows) ELSE @])
    ELSE IF k + 1 > Len(amps) \/ k + 1 > Len(graphs) \/ k + 1 > Len(degrees)
    THEN [st EXCEPT !.err = "IndexError"]
    ELSE LET wl == QuantumWalk(st.coins, feats[k + 1], feats[k + 2], amps[k + 1],
                               graphs[k + 1], time_steps, degrees[k + 1])
             ag == AggregatorForward(feats[k + 1], wl.rows)
             e  == IF wl.err # "none" THEN wl.err ELSE ag.err
         IN  AggLayer(k + 1, feats, qw, amps, graphs, degrees,
                      [err |-> e,
                       coins |-> wl.coins,
                       outs |-> IF e = "none" THEN Append(st.outs, ag.rows) ELSE st.outs,
                       used |-> Append(st.used, [k |-> k, amps |-> amps[k + 1],
                                                 graphs |-> graphs[k + 1],
                                                 degree |-> degrees[k + 1]])])

ClipThreshold == 5

\* self.optimizer.step(): the parameters change
OptimizerStep(p) == (p + 1) % 2

Init ==
    /\ layer_specs \in LayerSpecs
    /\ quantum_walk \in BOOLEAN
    /\ quantum_neighbors = quantum_walk
    /\ all_amps = <<>>
    /\ all_graphs = <<>>
    /\ max_degrees = <<>>
    /\ coins = <<>>
    /\ params = 0
    /\ pc = "idle"
    /\ caller = "none"
    /\ train = TRUE
    /\ id_groups = <<>>
    /\ original_id_len = 0
    /\ all_feats = <<>>
    /\ layers_done = 0
    /\ walk_used = <<>>
    /\ preds = <<>>
    /\ ret = <<>>
    /\ err = "none"
    /\ oplog = <<>>
    /\ comp = [op |-> "none"]

qwVars == <<quantum_neighbors, all_amps, all_graphs, max_degrees, coins>>

cfgVars == <<layer_specs, quantum_walk>>

\* state of a call that is just starting, for the batch ids
StartCall(who, tr, ids, log) ==
    /\ caller' = who
    /\ train' = tr
    /\ id_groups' = <<ids>>
    /\ original_id_len' = 0
    /\ all_feats' = <<>>
    /\ layers_done' = 0
    /\ walk_used' = <<>>
    /\ preds' = <<>>
    /\ ret' = <<>>
    /\ err' = "none"
    /\ oplog' = log
    /\ pc' = "forward"

\* train_step: self.optimizer.zero_grad(), then the call of forward(train=True)
TrainStepZeroGrad ==
    /\ pc = "idle"
    /\ \E ids \in Chunks(TrainNodes, MaxBatch) :
           StartCall("train_step", TRUE, ids, <<<<"zero_grad", 0>>>>)
    /\ UNCHANGED <<cfgVars, qwVars, params, comp>>

\* a caller evaluating a batch: model(ids, feats, train=False)
EvalCall ==
    /\ pc = "idle"
    /\ \E ids \in Chunks(AllNodes, MaxBatch) : StartCall("eval", FALSE, ids, <<>>)
    /\ UNCHANGED <<cfgVars, qwVars, params, comp>>

\* forward, up to the sampling loop: all_feats = [prep(ids, layer_idx=0)]
ForwardEnter ==
    /\ pc = "forward"
    /\ all_feats' = <<PrepRows(id_groups[1])>>
    /\ original_id_len' = Len(id_groups[1])
    /\ oplog' = Append(oplog, <<"forward", IF train THEN 1 ELSE 0>>)
    /\ pc' = "sample"
    /\ UNCHANGED <<cfgVars, qwVars, params, caller, train, id_groups,
                   layers_done, walk_used, preds, ret, err, comp>>

\* forward, one iteration of the sampling loop
ForwardSample ==
    /\ pc = "sample"
    /\ Len(id_groups) - 1 < Len(layer_specs)
    /\ LET layer_idx == Len(id_groups) - 1
           n == SampleCount(layer_specs[layer_idx + 1], train)
       IN  \E perm \in Perms(Width(AdjOf(train))) :
             LET ids == Flatten(UniformNeighborSampler(AdjOf(train), id_groups[Len(id_groups)],
                                                       perm, n))
                 q == GenerateQuantumWalkGraphs(AdjOf(train), ids, original_id_len,
                                                GraphSize(ids, original_id_len))
             IN  /\ id_groups' = Append(id_groups, ids)
                 /\ all_feats' = Append(all_feats, PrepRows(ids))
                 /\ IF quantum_neighbors
                    THEN /\ all_amps' = Append(all_amps, q.amps)
                         /\ all_graphs' = Append(all_graphs, q.graphs)
                         /\ max_degrees' = Append(max_degrees, q.degree)
                    ELSE UNCHANGED <<all_amps, all_graphs, max_degrees>>
    /\ UNCHANGED <<cfgVars, quantum_neighbors, coins, params, pc, caller, train,
                   original_id_len, layers_done, walk_used, preds, ret, err, oplog, comp>>

\* forward, after the sampling loop: if self.quantum_walk: self.quantum_neighbors = False
ForwardEndSampling ==
    /\ pc = "sample"
    /\ Len(id_groups) - 1 = Len(layer_specs)
    /\ quantum_neighbors' = IF quantum_walk THEN FALSE ELSE quantum_neighbors
    /\ pc' = "agg"
    /\ UNCHANGED <<cfgVars, all_amps, all_graphs, max_degrees, coins, params,
                   caller, train, id_groups, original_id_len, all_feats, layers_done,
                   walk_used, preds, ret, err, oplog, comp>>

\* forward, one aggregator layer; an exception ends the call
ForwardAgg ==
    /\ pc = "agg"
    /\ layers_done < Len(layer_specs)
    /\ LET st == AggLayer(0, all_feats, quantum_walk, all_amps, all_graphs, max_degrees,
                          [err |-> "none", coins |-> coins, outs |-> <<>>, used |-> <<>>])
       IN  /\ coins' = st.coins
           /\ walk_used' = st.used
           /\ err' = st.err
           /\ IF st.err = "none"
              THEN /\ all_feats' = AggOutputs(st.outs, all_feats)
                   /\ layers_done' = layers_done + 1
                   /\ pc' = "agg"
              ELSE /\ UNCHANGED <<all_feats, layers_done>>
                   /\ pc' = "idle"
    /\ UNCHANGED <<cfgVars, quantum_neighbors, all_amps, all_graphs, max_degrees, params,
                   caller, train, id_groups, original_id_len, preds, ret, oplog, comp>>

\* forward, after the aggregator layers: the assertion, normalize, self.fc
ForwardReturn ==
    /\ pc = "agg"
    /\ layers_done = Len(layer_specs)
    /\ IF Len(all_feats) # 1
       THEN /\ err' = "AssertionError"
            /\ pc' = "idle"
            /\ UNCHANGED preds
       ELSE /\ err' = "none"
            /\ preds' = <<[rows |-> all_feats[1], params |-> params]>>
            /\ pc' = IF caller = "train_step" THEN "loss" ELSE "idle"
    /\ UNCHANGED <<cfgVars, qwVars, params, caller, train, id_groups,
                   original_id_len, all_feats, layers_done, walk_used, ret, oplog, comp>>

\* train_step: loss = loss_fn(preds, targets.squeeze())
TrainStepLoss ==
    /\ pc = "loss"
    /\ oplog' = Append(oplog, <<"loss", 0>>)
    /\ pc' = "backward"
    /\ UNCHANGED <<cfgVars, qwVars, params, caller, train, id_groups,
                   original_id_len, all_feats, layers_done, walk_used, preds, ret, err, comp>>

\* train_step: loss.backward() succeeds
TrainStepBackward ==
    /\ pc = "backward"
    /\ oplog' = Append(oplog, <<"backward", 0>>)
    /\ pc' = "clip"
    /\ UNCHANGED <<cfgVars, qwVars, params, caller, train, id_groups,
                   original_id_len, all_feats, layers_done, walk_used, preds, ret, err, comp>>

\* faulty variant: the exception of backward is swallowed and train_step goes on
TrainStepBackwardFailsSwallowed ==
    /\ pc = "backward"
    /\ err' = "RuntimeError"
    /\ pc' = "clip"
    /\ UNCHANGED <<cfgVars, qwVars, params, caller, train, id_groups, original_id_len,
                   all_feats, layers_done, walk_used, preds, ret, oplog, comp>>

\* train_step: loss.backward() raises; the exception leaves train_step
TrainStepBackwardFails ==
    /\ pc = "backward"
    /\ err' = "RuntimeError"
    /\ pc' = "idle"
    /\ UNCHANGED <<cfgVars, qwVars, params, caller, train, id_groups, original_id_len,
                   all_feats, layers_done, walk_used, preds, ret, oplog, comp>>

\* train_step: torch.nn.utils.clip_grad_norm(self.parameters(), 5)
TrainStepClip ==
    /\ pc = "clip"
    /\ oplog' = Append(oplog, <<"clip_grad_norm", ClipThreshold>>)
    /\ pc' = "step"
    /\ UNCHANGED <<cfgVars, qwVars, params, caller, train, id_groups,
                   original_id_len, all_feats, layers_done, walk_used, preds, ret, err, comp>>

\* train_step: self.optimizer.step(); return preds
TrainStepStep ==
    /\ pc = "step"
    /\ params' = OptimizerStep(params)
    /\ oplog' = Append(oplog, <<"step", 0>>)
    /\ ret' = preds
    /\ pc' = "idle"
    /\ UNCHANGED <<cfgVars, qwVars, caller, train, id_groups,
                   original_id_len, all_feats, layers_done, walk_used, preds, err, comp>>

Next ==
    \/ TrainStepZeroGrad
    \/ EvalCall
    \/ ForwardEnter
    \/ ForwardSample
    \/ ForwardEndSampling
    \/ ForwardAgg
    \/ ForwardReturn
    \/ TrainStepLoss
    \/ TrainStepBackward
    \/ TrainStepBackwardFails
    \/ TrainStepClip
    \/ TrainStepStep

Spec == Init /\ [][Next]_vars

\* =============================================== stand-alone component calls
\* state of the model variables while a component is exercised on its own
NoModel ==
    /\ layer_specs = <<>>
    /\ quantum_walk = FALSE
    /\ quantum_neighbors = FALSE
    /\ all_amps = <<>>
    /\ all_graphs = <<>>
    /\ max_degrees = <<>>
    /\ coins = <<>>
    /\ params = 0
    /\ pc = "idle"
    /\ caller = "none"
    /\ train = TRUE
    /\ id_groups = <<>>
    /\ original_id_len = 0
    /\ all_feats = <<>>
    /\ layers_done = 0
    /\ walk_used = <<>>
    /\ preds = <<>>
    /\ ret = <<>>
    /\ err = "none"
    /\ oplog = <<>>

InitComp == NoModel /\ comp = [op |-> "none"]

\* id tensors of 1..n entries over the id set S
IdSeqs(S, n) == UNION {[1..l -> S] : l \in 1..n}

MaxIds == 3         \* entries of an id tensor handed to a sampler or preparer
MaxSparseIds == 2   \* entries of an id tensor handed to the sparse sampler
MaxSamples == 2     \* explicit sample counts handed to the sparse sampler
MaxDim == 2         \* configured widths

\* ---- UniformNeighborSampler ----
DenseDefaultNSamples == 0 - 1

\* UniformNeighborSampler.__call__(ids, n_samples=-1); given is <<>> or <<n_samples>>
DenseSample ==
    /\ comp.op = "none"
    /\ \E name \in {"adj", "train_adj"}, ids \in IdSeqs(0..n_nodes, MaxIds),
       given \in {<<>>} \cup {<<k>> : k \in 1..Width(adj)}, perm \in Perms(Width(adj)) :
        LET a == IF name = "adj" THEN adj ELSE train_adj
            n == IF given = <<>> THEN DenseDefaultNSamples ELSE given[1]
        IN  /\ comp' = [op |-> "dense", a |-> a, ids |-> ids, given |-> given,
                        out |-> UniformNeighborSampler(a, ids, perm, n)]
            /\ UNCHANGED modelVars

NextDense == DenseSample

SpecDense == InitComp /\ [][NextDense]_vars

\* ---- SparseUniformNeighborSampler ----
\* A "sparse 2D edgelist": row r+1 holds the neighbors of node r in its leading
\* columns, zeros after them; node 0 is the dummy node.
sparse_adj == << <<0, 0, 0>>, <<2, 3, 0>>, <<1, 0, 0>>, <<1, 2, 3>> >>

\* SparseUniformNeighborSampler.__init__: nonzero entries per row
SparseDegrees(a) ==
    [r \in 1..Len(a) |-> Cardinality({c \in 1..Width(a) : a[r][c] # 0})]

SparseDefaultNSamples == 128

\* numpy's integer %: a zero divisor yields 0 (with a warning), no exception
NumpyMod(x, d) == IF d = 0 THEN 0 ELSE x % d

\* faulty variant: the drawn column is used as drawn
ReduceSelRaw(x, d) == x

\* sel % self.degrees[ids]
ReduceSel(x, d) == NumpyMod(x, d)

\* np.random.choice(self.adj.shape[1], (n_ids, n)): tables of drawn columns.
\* Every table is enumerated up to MaxSamples columns; of the wider tables (the
\* default sample count) only those whose rows repeat one drawn column.
DrawTables(w, n_ids, n) ==
    IF n <= MaxSamples
    THEN [1..n_ids -> [1..n -> 0..(w - 1)]]
    ELSE {[r \in 1..n_ids |-> [c \in 1..n |-> col[r]]] : col \in [1..n_ids -> 0..(w - 1)]}

\* tmp[arange(n_ids).repeat(n), sel.reshape(-1)]: entry (r, c) is read from
\* the row of ids[r]
SparseGather(a, ids, sel, n) ==
    Flatten([r \in 1..Len(ids) |->
                [c \in 1..n |-> AdjRow(a, ids[r])[ReduceSel(sel[r][c], SparseDegrees(a)[ids[r] + 1]) + 1]]])

\* the calls of the sparse sampler: ids, and given = <<>> or <<n_samples>>
SparseCalls ==
    [op : {"sparse_call"}, ids : IdSeqs(0..(Len(sparse_adj) - 1), MaxSparseIds),
     given : {<<>>} \cup {<<k>> : k \in (0 - 1)..MaxSamples}]

InitSparse == NoModel /\ comp \in SparseCalls

\* SparseUniformNeighborSampler.__call__(ids, n_samples=128).  A one-element
\* result is squeezed to a 0-d array, whose conversion to a tensor depends on
\* the torch build: it yields the element or raises.
SparseSample ==
    /\ comp.op = "sparse_call"
    /\ LET ids == comp.ids
           given == comp.given
           n == IF given = <<>> THEN SparseDefaultNSamples ELSE given[1]
       IN  IF ~(n > 0)
           THEN comp' = [op |-> "sparse", ids |-> ids, given |-> given, n_samples |-> n,
                         err |-> "AssertionError", out |-> <<>>]
           ELSE \E sel \in DrawTables(Width(sparse_adj), Len(ids), n) :
                  \E scalar_ok \in IF Len(ids) * n = 1 THEN BOOLEAN ELSE {TRUE} :
                      IF ~scalar_ok
                      THEN comp' = [op |-> "sparse", ids |-> ids, given |-> given,
                                    n_samples |-> n, err |-> "TypeError", out |-> <<>>]
                      ELSE comp' = [op |-> "sparse", ids |-> ids, given |-> given,
                                    n_samples |-> n, err |-> "none",
                                    out |-> SparseGather(sparse_adj, ids, sel, n)]
    /\ UNCHANGED modelVars

NextSparse == SparseSample

SpecSparse == InitSparse /\ [][NextSparse]_vars

\* ---- NodeEmbeddingPrep ----
\* NodeEmbeddingPrep.forward(ids, feats, layer_idx): the embedding rows looked up
PrepForward ==
    /\ comp.op = "none"
    /\ \E ids \in IdSeqs(0..n_nodes, MaxIds), layer_idx \in 0..MaxLayers :
        /\ comp' = [op |-> "prep", ids |-> ids, layer_idx |-> layer_idx,
                    lookup |-> EmbeddingIds(ids, layer_idx)]
        /\ UNCHANGED modelVars

NextPrep == PrepForward

SpecPrep == InitComp /\ [][NextPrep]_vars

\* ---- GSSupervised.__init__: widths ----
EmbeddingDim == 64

LinearPrepDim == 32

\* prep.output_dim of the three preparers; input_dim 0 stands for "no features"
PrepOutputDim(prep_class, input_dim) ==
    IF prep_class = "identity" THEN input_dim
    ELSE IF prep_class = "node_embedding"
         THEN (IF input_dim # 0 THEN input_dim + EmbeddingDim ELSE EmbeddingDim)
         ELSE LinearPrepDim

\* __init__ up to the network: self.prep, input_dim = self.prep.output_dim
ConstructPrep ==
    /\ comp.op = "none"
    /\ \E input_dim \in 0..MaxDim, prep_class \in {"identity", "node_embedding", "linear"},
       combine_fn \in {"cat", "sum"},
       dims \in UNION {[1..l -> 1..MaxDim] : l \in 1..MaxLayers} :
        /\ comp' = [op |-> "init", dims |-> dims, combine_fn |-> combine_fn,
                    prep_out |-> PrepOutputDim(prep_class, input_dim),
                    input_dim |-> PrepOutputDim(prep_class, input_dim),
                    agg_layers |-> <<>>, fc_in |-> <<>>]
        /\ UNCHANGED modelVars

\* __init__, one iteration of `for spec in layer_specs`
ConstructLayer ==
    /\ comp.op = "init"
    /\ comp.fc_in = <<>>
    /\ Len(comp.agg_layers) < Len(comp.dims)
    /\ LET agg == [input_dim |-> comp.input_dim,
                   output_dim_ |-> comp.dims[Len(comp.agg_layers) + 1],
                   combine_fn |-> comp.combine_fn]
       IN  comp' = [comp EXCEPT !.agg_layers = Append(@, agg),
                                !.input_dim = output_dim(agg)]
    /\ UNCHANGED modelVars

\* __init__: self.fc = nn.Linear(input_dim, n_classes)
ConstructHead ==
    /\ comp.op = "init"
    /\ comp.fc_in = <<>>
    /\ Len(comp.agg_layers) = Len(comp.dims)
    /\ comp' = [comp EXCEPT !.fc_in = <<comp.input_dim>>]
    /\ UNCHANGED modelVars

NextConstruct == ConstructPrep \/ ConstructLayer \/ ConstructHead

SpecConstruct == InitComp /\ [][NextConstruct]_vars

\* ---- supervised_train.py: the training loop ----
MaxEpochs == 2      \* FLAGS.epochs
MaxFlag == 2        \* FLAGS.validate_iter and FLAGS.print_every

\* Python's integer %: a zero divisor raises ZeroDivisionError
PyMod(a, b) == IF b = 0 THEN [err |-> "ZeroDivisionError", val |-> 0]
               ELSE [err |-> "none", val |-> a % b]

\* The runs of the script: the flags, and the state before the first epoch.
\* adj_ is initialised with batch_iterator.train_adj; n_batches is the number
\* of batches batch_iterator.iterate(mode='train') yields per epoch.
LoopRuns ==
    {[op |-> "loop", epochs |-> e, validate_iter |-> v, print_every |-> p,
      n_batches |-> Cardinality(Chunks(TrainNodes, bs)),
      adj_ |-> "train_adj", epoch |-> 0, iter_ |-> 0, total_steps |-> 0,
      pc |-> "for", err |-> "none", last_run |-> <<>>, val_f1 |-> <<>>]
        : e \in 0..MaxEpochs, v \in 0..MaxFlag, p \in 0..MaxFlag, bs \in 1..MaxBatch}

InitLoop == NoModel /\ comp \in LoopRuns

\* the two for statements: the next batch of the epoch, else the next epoch,
\* else the code after the loop
LoopFor ==
    /\ comp.op = "loop" /\ comp.pc = "for"
    /\ comp' = IF comp.epoch >= comp.epochs THEN [comp EXCEPT !.pc = "final"]
               ELSE IF comp.iter_ < comp.n_batches THEN [comp EXCEPT !.pc = "train_step"]
               ELSE [comp EXCEPT !.epoch = @ + 1, !.iter_ = 0]
    /\ UNCHANGED modelVars

\* sess.run([model.opt_op, model.loss, model.preds], ...): the sampler reads adj_;
\* then the test iter_ % FLAGS.validate_iter == 0
LoopTrainingStep ==
    /\ comp.op = "loop" /\ comp.pc = "train_step"
    /\ LET m == PyMod(comp.iter_, comp.validate_iter)
           ran == [comp EXCEPT !.last_run = <<[kind |-> "train", adj |-> comp.adj_,
                                               step |-> comp.total_steps]>>]
       IN  comp' = IF m.err # "none" THEN [ran EXCEPT !.err = m.err, !.pc = "exit"]
                   ELSE IF m.val = 0 THEN [ran EXCEPT !.pc = "load_val_adj"]
                   ELSE [ran EXCEPT !.pc = "logging"]
    /\ UNCHANGED modelVars

\* sess.run(load_val_adj.op)
load_val_adj ==
    /\ comp.op = "loop" /\ comp.pc = "load_val_adj"
    /\ comp' = [comp EXCEPT !.adj_ = "val_adj", !.pc = "val_preds"]
    /\ UNCHANGED modelVars

\* sample_eval_batch, sess.run(model.preds, ...) and calc_f1 succeed
LoopValidation ==
    /\ comp.op = "loop" /\ comp.pc = "val_preds"
    /\ comp' = [comp EXCEPT !.last_run = <<[kind |-> "val", adj |-> comp.adj_,
                                            step |-> comp.total_steps]>>,
                            !.val_f1 = <<comp.total_steps>>,
                            !.pc = "load_train_adj"]
    /\ UNCHANGED modelVars

\* one of them raises: nothing catches the exception, the script ends
LoopValidationFails ==
    /\ comp.op = "loop" /\ comp.pc = "val_preds"
    /\ comp' = [comp EXCEPT !.err = "Exception", !.pc = "exit"]
    /\ UNCHANGED modelVars

\* faulty variant: the restore is left out
load_train_adjSkipped ==
    /\ comp.op = "loop" /\ comp.pc = "load_train_adj"
    /\ comp' = [comp EXCEPT !.pc = "logging"]
    /\ UNCHANGED modelVars

\* sess.run(load_train_adj.op)
load_train_adj ==
    /\ comp.op = "loop" /\ comp.pc = "load_train_adj"
    /\ comp' = [comp EXCEPT !.adj_ = "train_adj", !.pc = "logging"]
    /\ UNCHANGED modelVars

\* the test total_steps % FLAGS.print_every == 0 (with the print), then
\* total_steps += 1 and the next iteration
LoopLogging ==
    /\ comp.op = "loop" /\ comp.pc = "logging"
    /\ LET m == PyMod(comp.total_steps, comp.print_every)
       IN  comp' = IF m.err # "none" THEN [comp EXCEPT !.err = m.err, !.pc = "exit"]
                   ELSE [comp EXCEPT !.total_steps = @ + 1, !.iter_ = @ + 1, !.pc = "for"]
    /\ UNCHANGED modelVars

\* after the loop: sess.run(load_val_adj.op) and the two evaluate calls
LoopFinalEval ==
    /\ comp.op = "loop" /\ comp.pc = "final"
    /\ comp' = [comp EXCEPT !.adj_ = "val_adj", !.pc = "exit",
                            !.last_run = <<[kind |-> "evaluate", adj |-> "val_adj",
                                            step |-> comp.total_steps]>>]
    /\ UNCHANGED modelVars

NextLoop ==
    \/ LoopFor
    \/ LoopTrainingStep
    \/ load_val_adj
    \/ LoopValidation
    \/ LoopValidationFails
    \/ load_train_adj
    \/ LoopLogging
    \/ LoopFinalEval

SpecLoop == InitLoop /\ [][NextLoop]_vars

\* ---- GenerateQuantumWalkGraphs on its own ----
MaxTmp == 4         \* entries of the id tensor handed to GenerateQuantumWalkGraphs

\* the calls: an adjacency table, batch_size, graph_size and an id tensor of
\* batch_size * graph_size entries (the shape forward hands over)
WalkGraphCalls ==
    UNION {[op : {"graphs_call"}, a : {adj, train_adj}, batch_size : {sh[1]},
            graph_size : {sh[2]}, tmp : [1..(sh[1] * sh[2]) -> 0..n_nodes]]
           : sh \in {x \in (1..MaxTmp) \X (1..MaxTmp) : x[1] * x[2] <= MaxTmp}}

InitWalkGraphs == NoModel /\ comp \in WalkGraphCalls

\* GenerateQuantumWalkGraphs(adj, tmp, batch_size, graph_size)
GenerateGraphs ==
    /\ comp.op = "graphs_call"
    /\ LET q == GenerateQuantumWalkGraphs(comp.a, comp.tmp, comp.batch_size, comp.graph_size)
       IN  comp' = [op |-> "graphs", a |-> comp.a, tmp |-> comp.tmp,
                    batch_size |-> comp.batch_size, graph_size |-> comp.graph_size,
                    all_amps |-> q.amps, graphs |-> q.graphs, degree |-> q.degree]
    /\ UNCHANGED modelVars

NextWalkGraphs == GenerateGraphs

SpecWalkGraphs == InitWalkGraphs /\ [][NextWalkGraphs]_vars

\* ---- QuantumWalk (the walk layer) on its own ----
MaxCalls == 3       \* calls of the walk layer on one QuantumWalk object
MaxWalkGraph == 2   \* graph_size of the subgraphs handed to the walk layer

\* QuantumWalk.forward, the coin used at each time step: the size of
\* self.coins[t] or self.coins[t + time_steps]; 0 - 1 when the index is past
\* the end of the list, <<>> when the coin creation raised
AppliedCoinSizes(cs, ts, degree) ==
    LET mk == MakeCoins(cs, ts, degree)
    IN  IF mk.err # "none" THEN <<>>
        ELSE [t \in 1..ts |->
                LET ix == CoinIndex(mk.coins, ts, degree, t - 1) + 1
                IN  IF ix > Len(mk.coins) THEN 0 - 1 ELSE Len(mk.coins[ix])]

\* a fresh QuantumWalk(): self.coins = nn.ParameterList()
InitWalkLayer ==
    NoModel /\ comp = [op |-> "walk", coins |-> <<>>, degrees |-> <<>>, last |-> <<>>]

\* One call walk_layer(x, neibs, init_amps, graphs, time_steps, degree) for one
\* seed: init_amps, graphs and degree are what GenerateQuantumWalkGraphs yields
\* for the id tensor tmp; x has one row, neibs one row per id.
WalkLayerCall ==
    /\ comp.op = "walk"
    /\ Len(comp.degrees) < MaxCalls
    /\ \E f \in 1..MaxWalkGraph : \E tmp \in [1..f -> 0..n_nodes] :
         LET q == GenerateQuantumWalkGraphs(adj, tmp, 1, f)
             wl == QuantumWalk(comp.coins, 1, f, q.amps, q.graphs, time_steps, q.degree)
         IN  comp' = [op |-> "walk", coins |-> wl.coins,
                      degrees |-> Append(comp.degrees, q.degree),
                      last |-> <<[tmp |-> tmp, degree |-> q.degree, err |-> wl.err,
                                  had_coins |-> Len(comp.coins),
                                  applied |-> AppliedCoinSizes(comp.coins, time_steps, q.degree)]>>]
    /\ UNCHANGED modelVars

NextWalkLayer == WalkLayerCall

SpecWalkLayer == InitWalkLayer /\ [][NextWalkLayer]_vars

\* ---- AttentionAggregator ----
MaxAttSlots == 4    \* B * k: neighbor rows handed to the attention aggregator
MaxScore == 2       \* attention scores neib_att . x_att lie in 0..MaxScore

\* tensor.squeeze(): the dimensions of size 1 are dropped, the data keep their order
Squeeze(shape) ==
    LET RECURSIVE drop(_)
        drop(sh) == IF sh = <<>> THEN <<>>
                    ELSE IF Head(sh) = 1 THEN drop(Tail(sh))
                    ELSE <<Head(sh)>> \o drop(Tail(sh))
    IN  drop(shape)

\* F.softmax(input) without dim: dimension 0 for 0-, 1- and 3-dimensional
\* input, dimension 1 otherwise
ImplicitSoftmaxDim(ndim) == IF ndim \in {0, 1, 3} THEN 0 ELSE 1

\* positions (row-major, from 1) normalised together with position i by a
\* softmax along dim of a tensor of at most two dimensions
SoftmaxGroup(shape, dim, i) ==
    IF Len(shape) < 2 THEN 1..ProdSeq(shape)
    ELSE IF dim = 1
         THEN {p \in 1..ProdSeq(shape) : (p - 1) \div shape[2] = (i - 1) \div shape[2]}
         ELSE {p \in 1..ProdSeq(shape) : (p - 1) % shape[2] = (i - 1) % shape[2]}

RECURSIVE SumOver(_, _)
SumOver(f, S) == IF S = {} THEN 0
                 ELSE LET x == CHOOSE y \in S : TRUE IN f[x] + SumOver(f, S \ {x})

\* softmax along dim; exp is modelled by 2^x, the entries are fractions
\* <<2^x_i, sum of 2^x_p over the group of i>>
Softmax(shape, data, dim) ==
    LET e == [i \in 1..Len(data) |-> 2 ^ data[i]]
    IN  [i \in 1..Len(data) |-> <<e[i], SumOver(e, SoftmaxGroup(shape, dim, i))>>]

\* torch.sum(agg_neib * ws.unsqueeze(-1), dim=1): the factor neighbor slot c of
\* node b ends up with.  ws.unsqueeze(-1) is broadcast against (B, k, D): a
\* 2-D ws (B, k) weighs slot (b, c) by ws[b][c]; a 1-D ws of k entries (B = 1)
\* weighs slot c by ws[c]; a 1-D ws of B entries (k = 1) becomes (1, B, 1), the
\* product (B, B, D), and the sum over dim 1 adds up all entries of ws.
WeightedSumFactor(B, k, ws_shape, ws, b, c) ==
    IF Len(ws_shape) = 1 /\ k = 1
    THEN <<SumOver([j \in 1..Len(ws) |-> ws[j][1]], 1..Len(ws)), ws[1][2]>>
    ELSE ws[(b - 1) * k + c]

\* the calls: x of B rows, neibs of B * k rows, their attention scores
AttentionCalls ==
    UNION {[op : {"att_call"}, B : {sh[1]}, k : {sh[2]},
            scores : [1..(sh[1] * sh[2]) -> 0..MaxScore]]
           : sh \in {x \in (1..MaxAttSlots) \X (1..MaxAttSlots) : x[1] * x[2] <= MaxAttSlots}}

InitAttention == NoModel /\ comp \in AttentionCalls

\* AttentionAggregator.forward up to the weighted sum: scores is
\* torch.bmm(neib_att, x_att) of shape (B, k, 1), row-major
AttentionForward ==
    /\ comp.op = "att_call"
    /\ LET ws_shape == Squeeze(<<comp.B, comp.k, 1>>)
           ws == Softmax(ws_shape, comp.scores, ImplicitSoftmaxDim(Len(ws_shape)))
       IN  comp' = [op |-> "att", B |-> comp.B, k |-> comp.k, scores |-> comp.scores,
                    ws_shape |-> ws_shape, ws |-> ws,
                    factor |-> [b \in 1..comp.B |-> [c \in 1..comp.k |->
                                   WeightedSumFactor(comp.B, comp.k, ws_shape, ws, b, c)]]]
    /\ UNCHANGED modelVars

NextAttention == AttentionForward

SpecAttention == InitAttention /\ [][NextAttention]_vars

\* ---- QuantumWalk.forward: the swap operator of one batch element ----
MaxSwapNodes == 3   \* graph_size of the local graph whose swap lists are built

\* symmetric 0/1 matrices of size f, given by their upper triangle
SymmetricGraphs(f) ==
    {[i \in 1..f |-> [j \in 1..f |-> t[<<Min(i, j), Max(i, j)>>]]]
        : t \in [{pr \in (1..f) \X (1..f) : pr[1] <= pr[2]} -> {0, 1}]}

\* the local graphs handed over: the symmetric ones, and those with one entry
\* off the diagonal changed (a neighbor relation seen from one side only)
SwapGraphs(f) ==
    SymmetricGraphs(f) \cup
    {[g EXCEPT ![pr[1]][pr[2]] = 1 - @]
        : g \in SymmetricGraphs(f), pr \in {x \in (1..f) \X (1..f) : x[1] # x[2]}}

SwapCalls ==
    UNION {[op : {"swap_call"}, graph : SwapGraphs(f), degree : 0..f] : f \in 1..MaxSwapNodes}

InitSwap == NoModel /\ comp \in SwapCalls

\* the body of `for i in range(amps.size()[0])` up to swap_a, swap_b, for
\* graphs[i] = comp.graph; inds = np.zeros(graphs.shape[1])
BuildSwapLists ==
    /\ comp.op = "swap_call"
    /\ comp' = [op |-> "swap", graph |-> comp.graph, degree |-> comp.degree,
                swap |-> SwapLists(comp.graph, comp.degree, 0,
                                   [i \in 1..Len(comp.graph) |-> 0])]
    /\ UNCHANGED modelVars

NextSwap == BuildSwapLists

SpecSwap == InitSwap /\ [][NextSwap]_vars

\* ================================================================ claims
\* fan-outs of the pass in progress, in layer order
FanOuts == [i \in 1..Len(layer_specs) |-> SampleCount(layer_specs[i], train)]

\* C1: when the aggregation loop of forward starts, all_feats holds exactly
\* L+1 feature groups and group j (0 <= j <= L) has B*k1*...*kj rows, B being
\* the number of seed ids and k1..kL the fan-outs of the mode in use.
C1_GroupSizes ==
    (pc = "agg" /\ layers_done = 0) =>
        /\ Len(all_feats) = Len(layer_specs) + 1
        /\ \A j \in 0..Len(layer_specs) :
               all_feats[j + 1] = Len(id_groups[1]) * ProdSeq(SubSeq(FanOuts, 1, j))

C1_Witness ==
    /\ pc = "agg" /\ layers_done = 0
    /\ Len(layer_specs) = 2
    /\ FanOuts = <<2, 2>>
    /\ all_feats = <<2, 4, 8>>

\* C2: every aggregator layer shortens all_feats by exactly one, so after the L
\* layers one group is left with one row per seed id; the assertion
\* len(all_feats) == 1 never fails, and predictions are only ever produced
\* from a list of exactly one group.
C2_OneGroupLeft ==
    /\ pc = "agg" => Len(all_feats) = Len(layer_specs) + 1 - layers_done
    /\ err # "AssertionError"
    /\ preds # <<>> =>
           /\ layers_done = Len(layer_specs)
           /\ Len(all_feats) = 1
           /\ all_feats[1] = Len(id_groups[1])
           /\ preds[1].rows = Len(id_groups[1])

C2_Witness ==
    /\ pc = "idle" /\ preds # <<>>
    /\ Len(layer_specs) = 2 /\ layers_done = 2
    /\ Len(id_groups[1]) = 2
    /\ FanOuts = <<2, 2>>

\* what GenerateQuantumWalkGraphs yields for depth k+1 of the pass in progress
BuiltThisPass(k) ==
    GenerateQuantumWalkGraphs(AdjOf(train), id_groups[k + 2], original_id_len,
                              GraphSize(id_groups[k + 2], original_id_len))

\* C3: with the quantum walk enabled, the amplitudes, local subgraphs and max
\* degree handed to the walk layer at depth k of a pass are the ones built from
\* the ids sampled in that same pass.  Stated for the passes that return
\* predictions, where no exception has cut the pass short.
C3_UsesOwnPass ==
    (quantum_walk /\ pc = "idle" /\ err = "none" /\ preds # <<>>) =>
        \A i \in 1..Len(walk_used) :
            /\ walk_used[i].graphs = BuiltThisPass(walk_used[i].k).graphs
            /\ walk_used[i].amps = BuiltThisPass(walk_used[i].k).amps
            /\ walk_used[i].degree = BuiltThisPass(walk_used[i].k).degree

\* C8: a batch whose local subgraphs at some depth have only zero-degree nodes
\* (maximum local degree 0) never ends a forward pass in a division by zero.
C8_NoDivisionByZero ==
    (quantum_walk /\ \E k \in 1..Len(max_degrees) : max_degrees[k] = 0) =>
        err # "ZeroDivisionError"

\* the operations of one complete train_step, in order
TrainStepOrder ==
    << <<"zero_grad", 0>>, <<"forward", 1>>, <<"loss", 0>>, <<"backward", 0>>,
       <<"clip_grad_norm", 5>>, <<"step", 0>> >>

C10_Order ==
    caller = "train_step" =>
        /\ Len(oplog) <= Len(TrainStepOrder)
        /\ oplog = SubSeq(TrainStepOrder, 1, Len(oplog))
        /\ (pc = "idle" /\ err = "none") =>
               /\ oplog = TrainStepOrder
               /\ ret = preds /\ ret # <<>>
               /\ ret[1].params # params
        /\ err # "none" => (<<"step", 0>> \notin Range(oplog) /\ ret = <<>> /\ pc = "idle")
        /\ <<"step", 0>> \in Range(oplog) => pc = "idle"

\* C10: a train_step performs zero_grad, forward(train), loss, backward,
\* clip_grad_norm at 5 and the optimizer step in this order, each once; the
\* parameters change only in the optimizer step, which ends the call and never
\* happens once forward or backward has failed; the value returned is the
\* predictions of the forward pass made before the step.
C10_TrainStepOrder ==
    /\ []C10_Order
    /\ [][params' # params =>
            /\ pc = "step" /\ err = "none" /\ pc' = "idle"
            /\ oplog' = TrainStepOrder
            /\ ret' = preds /\ preds # <<>> /\ preds[1].params = params]_vars

C10_Witness ==
    /\ caller = "train_step" /\ pc = "idle" /\ err = "none"
    /\ oplog = TrainStepOrder
    /\ ret # <<>>

\* C4: NodeEmbeddingPrep at depth 0 looks up the reserved padding id n_nodes
\* for every seed, so the rows looked up depend only on the number of ids; at
\* any depth > 0 the true ids are looked up.
C4_PaddingAtRoot ==
    comp.op = "prep" =>
        /\ Len(comp.lookup) = Len(comp.ids)
        /\ comp.layer_idx = 0 =>
               \A i \in 1..Len(comp.lookup) : comp.lookup[i] = Len(adj) - 1   \* the padding row
        /\ comp.layer_idx > 0 => comp.lookup = comp.ids

C4_Witness ==
    /\ comp.op = "prep" /\ comp.layer_idx = 0
    /\ comp.ids = <<0, 2, 1>>
    /\ comp.lookup = <<4, 4, 4>>

\* C5: a dense-sampler call with 1 <= k <= table width returns a (|ids|, k)
\* table whose row r reads the adjacency row of ids[r] at the first k positions
\* of one permutation of the columns, the same permutation for every row.
C5_SharedPermutation ==
    (comp.op = "dense" /\ comp.given # <<>>) =>
        /\ Len(comp.out) = Len(comp.ids)
        /\ \A r \in 1..Len(comp.out) : Len(comp.out[r]) = comp.given[1]
        /\ \E p \in Perms(Len(comp.a[1])) :
               \A r \in 1..Len(comp.out) : \A c \in 1..comp.given[1] :
                   comp.out[r][c] = comp.a[comp.ids[r] + 1][p[c]]

C5_Witness ==
    /\ comp.op = "dense" /\ comp.given = <<1>>
    /\ comp.a = adj
    /\ comp.ids = <<0, 1>>
    /\ comp.out = << <<3>>, <<2>> >>

\* the nonzero entries of node id's own sparse row
TrueNeighbors(id) == {sparse_adj[id + 1][c] : c \in 1..Len(sparse_adj[id + 1])} \ {0}

\* C6: every entry the sparse sampler returns for a requested node of degree
\* >= 1 is a nonzero entry of that node's own row, for every one of its k
\* draws, also when k exceeds the node's degree.
C6_OwnNeighborsOnly ==
    (comp.op = "sparse" /\ comp.err = "none") =>
        /\ Len(comp.out) = Len(comp.ids) * comp.n_samples
        /\ \A r \in 1..Len(comp.ids) : \A c \in 1..comp.n_samples :
               TrueNeighbors(comp.ids[r]) # {} =>
                   comp.out[(r - 1) * comp.n_samples + c] \in TrueNeighbors(comp.ids[r])

C6_Witness ==
    /\ comp.op = "sparse" /\ comp.err = "none"
    /\ comp.given = <<2>>
    /\ comp.ids = <<2, 3>>
    /\ comp.out = <<1, 1, 3, 1>>

\* C7: a call of the sparse sampler that supplies no sample count ends in an error.
C7_ExplicitCountRequired ==
    (comp.op = "sparse" /\ comp.given = <<>>) => (comp.err # "none" /\ comp.out = <<>>)

\* C9: the input width of aggregator layer j+1 is the realized output width of
\* layer j and the classifier head's input width that of the last layer: twice
\* the configured width under concatenation, the configured width under a sum.
Realized(j) == IF comp.combine_fn = "cat" THEN 2 * comp.dims[j] ELSE comp.dims[j]

C9_RealizedWidths ==
    comp.op = "init" =>
        /\ \A j \in 1..Len(comp.agg_layers) :
               /\ comp.agg_layers[j].output_dim_ = comp.dims[j]
               /\ comp.agg_layers[j].input_dim = IF j = 1 THEN comp.prep_out ELSE Realized(j - 1)
        /\ comp.fc_in # <<>> =>
               /\ Len(comp.agg_layers) = Len(comp.dims)
               /\ comp.fc_in[1] = Realized(Len(comp.dims))

C9_Witness ==
    /\ comp.op = "init" /\ comp.fc_in = <<4>>
    /\ comp.combine_fn = "cat"
    /\ comp.dims = <<1, 2>>
    /\ comp.agg_layers[2].input_dim = 2

\* C11: in the training loop every training step runs while adj_ holds the
\* training adjacency; the validation predictions are computed while it holds
\* the validation adjacency, between the swap and the restore; a swap made
\* inside the loop is followed by the restore before the next training step.
C11_Inv ==
    comp.op = "loop" =>
        /\ comp.pc = "train_step" => comp.adj_ = "train_adj"
        /\ \A i \in 1..Len(comp.last_run) :
               /\ comp.last_run[i].kind = "train" => comp.last_run[i].adj = "train_adj"
               /\ comp.last_run[i].kind = "val" => comp.last_run[i].adj = "val_adj"
        /\ (comp.adj_ = "val_adj" /\ comp.pc # "exit") =>
               comp.pc \in {"val_preds", "load_train_adj"}

C11_TrainOnTrainAdj ==
    /\ []C11_Inv
    /\ [][(comp.op = "loop" /\ comp.pc = "val_preds" /\ comp'.pc # "exit") =>
              (comp'.pc = "load_train_adj" /\ comp'.adj_ = "val_adj"
               /\ comp'.last_run[1].kind = "val")]_vars
    /\ [][(comp.op = "loop" /\ comp.pc = "load_train_adj") =>
              (comp'.adj_ = "train_adj" /\ comp'.pc = "logging")]_vars

C11_Witness ==
    /\ comp.op = "loop" /\ comp.pc = "train_step"
    /\ comp.total_steps = 2
    /\ comp.val_f1 = <<1>>
    /\ comp.adj_ = "train_adj"

\* the slots of node j of batch element b that hold a nonzero amplitude
NonzeroSlots(b, j) ==
    {s \in 1..comp.degree :
        \E jj \in 1..comp.graph_size : comp.all_amps[b][j][s][jj][1] # 0}

\* C12: in the amplitudes GenerateQuantumWalkGraphs returns, a node of local
\* degree d > 0 has exactly d nonzero slots, the first d, each holding
\* 1/sqrt(d) (square 1/d) at the node's own position and 0 elsewhere, so the
\* squares sum to d * 1/d = 1; the slots beyond d up to the batch's maximum
\* degree and all slots of a zero-degree node hold 0.
C12_InitialAmplitudes ==
    comp.op = "graphs" =>
        \A b \in 1..comp.batch_size : \A j \in 1..comp.graph_size :
            LET d == SumSeq(comp.graphs[b][j])
            IN  /\ d <= comp.degree
                /\ Len(comp.all_amps[b][j]) = comp.degree
                /\ NonzeroSlots(b, j) = 1..d
                /\ \A s \in 1..comp.degree : \A jj \in 1..comp.graph_size :
                       comp.all_amps[b][j][s][jj] =
                           IF s <= d /\ jj = j THEN <<1, d>> ELSE <<0, 1>>
                /\ d > 0 =>
                       SumSeq([s \in 1..comp.degree |->
                                  SumSeq([jj \in 1..comp.graph_size |->
                                             comp.all_amps[b][j][s][jj][1]])]) = d

C12_Witness ==
    /\ comp.op = "graphs" /\ comp.a = adj
    /\ comp.batch_size = 1 /\ comp.tmp = <<4, 4, 2, 0>>
    /\ comp.degree = 2
    /\ SumSeq(comp.graphs[1][3]) = 1 /\ SumSeq(comp.graphs[1][4]) = 0
    /\ comp.all_amps[1][3][1][3] = <<1, 1>> /\ comp.all_amps[1][3][2][3] = <<0, 1>>
    /\ comp.all_amps[1][1][2][1] = <<1, 2>>

\* C13: over a sequence of walk-layer calls with at most two distinct degree
\* values (all of them >= 1), every time step of a call applies a coin of size
\* degree x degree for the degree of that call, and a second coin set exists
\* only once a degree different from the first set's size has been passed.
C13_CoinsMatchDegree ==
    (/\ comp.op = "walk" /\ comp.last # <<>>
     /\ \A i \in 1..Len(comp.degrees) : comp.degrees[i] >= 1
     /\ Cardinality(Range(comp.degrees)) <= 2) =>
        /\ Len(comp.last[1].applied) = time_steps
        /\ \A t \in 1..Len(comp.last[1].applied) :
               comp.last[1].applied[t] = comp.last[1].degree
        /\ Len(comp.coins) > time_steps =>
               \E i \in 1..Len(comp.degrees) : comp.degrees[i] # Len(comp.coins[1])

\* C14: in the pass that builds them, the local-subgraph tensor of depth k >= 1
\* holds one F x F matrix per id of id group k-1, F being the fan-out of layer k.
C14_GraphPerPreviousNode ==
    (quantum_walk /\ quantum_neighbors /\ pc = "sample") =>
        /\ Len(all_graphs) = Len(id_groups) - 1
        /\ \A k \in 1..Len(all_graphs) :
               /\ Len(all_graphs[k]) = Len(id_groups[k])
               /\ Len(id_groups[k + 1]) = Len(id_groups[k]) * FanOuts[k]
               /\ \A b \in 1..Len(all_graphs[k]) :
                      /\ Len(all_graphs[k][b]) = FanOuts[k]
                      /\ \A i \in 1..Len(all_graphs[k][b]) :
                             Len(all_graphs[k][b][i]) = FanOuts[k]

\* C15: for every B >= 1 and k >= 1 the attention weight of neighbor slot c of
\* node b is the softmax over that node's own k scores: 2^score over the sum
\* of 2^score of the node's k slots (so a node's weights sum to 1), never a
\* normalisation over the nodes of the batch.
C15_SoftmaxPerNode ==
    comp.op = "att" =>
        \A b \in 1..comp.B : \A c \in 1..comp.k :
            comp.ws[(b - 1) * comp.k + c] =
                <<2 ^ comp.scores[(b - 1) * comp.k + c],
                  SumSeq([cc \in 1..comp.k |-> 2 ^ comp.scores[(b - 1) * comp.k + cc]])>>

\* C16: for a symmetric local graph and a degree argument at least every
\* node's local degree, the pairs (swap_a[p], swap_b[p]) lie in
\* [0,F) x [0,degree) and name every position exactly once (F * degree pairs,
\* no pair twice), and the slots of a node beyond its degree are named by
\* themselves (position (j, n) holds the pair (j, n)).
C16_SwapIsPermutation ==
    (/\ comp.op = "swap"
     /\ \A i, j \in 1..Len(comp.graph) : comp.graph[i][j] = comp.graph[j][i]
     /\ \A j \in 1..Len(comp.graph) : SumSeq(comp.graph[j]) <= comp.degree) =>
        /\ Len(comp.swap) = Len(comp.graph) * comp.degree
        /\ \A p \in 1..Len(comp.swap) :
               /\ comp.swap[p][1] \in 0..(Len(comp.graph) - 1)
               /\ comp.swap[p][2] \in 0..(comp.degree - 1)
        /\ \A p, q \in 1..Len(comp.swap) : comp.swap[p] = comp.swap[q] => p = q
        /\ {comp.swap[p] : p \in 1..Len(comp.swap)} =
               (0..(Len(comp.graph) - 1)) \X (0..(comp.degree - 1))
        /\ \A j \in 0..(Len(comp.graph) - 1) :
               \A n \in SumSeq(comp.graph[j + 1])..(comp.degree - 1) :
                   comp.swap[j * comp.degree + n + 1] = <<j, n>>

C16_Witness ==
    /\ comp.op = "swap" /\ comp.degree = 2
    /\ comp.graph = << <<0, 1, 0>>, <<1, 0, 1>>, <<0, 1, 0>> >>
    /\ comp.swap = << <<1, 0>>, <<0, 1>>, <<0, 0>>, <<2, 0>>, <<1, 1>>, <<2, 1>> >>

====
